---------------------------- MODULE Spec2Model ----------------------------
(***************************************************************************)
(* A model of graphsat's sat.py: truth-assignment enumeration, the three   *)
(* CNF sat-check strategies, DIMACS serialisation, and the correspondence  *)
(* between MHGraphs and the CNFs they support.                             *)
(*                                                                         *)
(* Every function of sat.py is pure, so the state machine is: an input is  *)
(* constructed (Init), then one function is called on it (one action per   *)
(* function) and its outcome (return value, yielded values or raised       *)
(* exception) is recorded in the state.                                    *)
(*                                                                         *)
(* Python iterators are modelled by the sequence of values they yield, in  *)
(* the order Python yields them.  The iteration order of a set/frozenset   *)
(* is arbitrary but fixed in Python; here it is the fixed order SetToSeq.  *)
(***************************************************************************)
EXTENDS Integers, Sequences, FiniteSets

VARIABLES
    cnf_instance,      \* the CNF argument (a set of clauses); {} when the input is an MHGraph
    mhgraph_instance,  \* the MHGraph argument (its items() in order); <<>> when the input is a CNF
    pc,                \* "ready", or the name of the function that was called
    verdict,           \* the boolean a sat-check returned
    raised,            \* the exception that left the call, "none" if it returned
    yielded,           \* the values an iterator result yields
    text,              \* the DIMACS text handed to / returned by the serialiser
    stdout,            \* the standard output of the minisat subprocess
    graph,             \* the MHGraph mhgraph_from_cnf returned
    calls,             \* the number of external solver invocations the call made
    rejected,          \* whether the solver library rejected the CNF as given
    hedge_item,        \* the <<hedge, multiplicity>> cnfs_from_hedge was called with
    solved             \* the CNFs the solver library was constructed with, in order

vars == <<cnf_instance, mhgraph_instance, pc, verdict, raised, yielded, text,
          stdout, graph, calls, rejected, hedge_item, solved>>

---------------------------------------------------------------------------
(* Bounds of the model. *)

\* Variables / vertices are 1..MaxVar.
MaxVar == 2
\* An input CNF holds at most MaxSize literal occurrences in total.
MaxSize == 3
\* Multiplicities of an input MHGraph range over 0..MaxMult.
MaxMult == 4

---------------------------------------------------------------------------
(* Generic sequence helpers: the itertools and builtins sat.py uses. *)

\* The fixed order in which a set is iterated.
RECURSIVE SetToSeq(_)
SetToSeq(S) ==
    IF S = {} THEN <<>>
    ELSE LET x == CHOOSE y \in S : TRUE
         IN  <<x>> \o SetToSeq(S \ {x})

Range(s) == {s[i] : i \in DOMAIN s}

\* s1 \o s2 \o ... for a sequence of sequences.
RECURSIVE Flatten(_)
Flatten(ss) ==
    IF ss = <<>> THEN <<>> ELSE Head(ss) \o Flatten(Tail(ss))

\* 2^n
RECURSIVE Pow2(_)
Pow2(n) == IF n = 0 THEN 1 ELSE 2 * Pow2(n - 1)

\* n choose k (the number of CNFs the docstrings of sat.py promise)
RECURSIVE Binomial(_, _)
Binomial(n, k) ==
    IF k = 0 THEN 1
    ELSE IF k > n THEN 0
    ELSE Binomial(n - 1, k - 1) + Binomial(n - 1, k)

\* itertools.product(*pools): tuples in lexicographic order of the pools.
RECURSIVE ItProduct(_)
ItProduct(pools) ==
    IF pools = <<>> THEN << <<>> >>
    ELSE LET rest == ItProduct(Tail(pools))
             pool == Head(pools)
         IN  Flatten([i \in DOMAIN pool |->
                        [j \in DOMAIN rest |-> <<pool[i]>> \o rest[j]]])

\* itertools.combinations(pool, r): r-tuples of pool in index order.
RECURSIVE ItCombinations(_, _)
ItCombinations(pool, r) ==
    IF r = 0 THEN << <<>> >>
    ELSE IF Len(pool) < r THEN <<>>
    ELSE LET with == ItCombinations(Tail(pool), r - 1)
         IN  [j \in DOMAIN with |-> <<Head(pool)>> \o with[j]]
             \o ItCombinations(Tail(pool), r)

---------------------------------------------------------------------------
(* The Boolean-formula algebra (module cnf).  A Literal is a nonzero int   *)
(* or one of the two Bools; the record keeps the two apart.                *)

Lit(n) == [bool |-> FALSE, n |-> n]
TRUE_LIT == [bool |-> TRUE, n |-> 1]
FALSE_LIT == [bool |-> TRUE, n |-> 0]

neg(l) ==
    IF l = TRUE_LIT THEN FALSE_LIT
    ELSE IF l = FALSE_LIT THEN TRUE_LIT
    ELSE Lit(0 - l.n)

absolute_value(l) == Lit(IF l.n < 0 THEN 0 - l.n ELSE l.n)

\* variable() casts a positive int; graph.vertex() does the same for vertices.
variable(l) == l.n

TRUE_CLAUSE == {TRUE_LIT}
FALSE_CLAUSE == {FALSE_LIT}
TRUE_CNF == {TRUE_CLAUSE}
FALSE_CNF == {FALSE_CLAUSE}

literals_in_cnf(c) == UNION c

tautologically_reduce_clause(cl) ==
    IF TRUE_LIT \in cl THEN TRUE_CLAUSE
    ELSE IF \E l \in cl : neg(l) \in cl THEN TRUE_CLAUSE
    ELSE IF cl \ {FALSE_LIT} = {} THEN FALSE_CLAUSE
    ELSE cl \ {FALSE_LIT}

tautologically_reduce_cnf(c) ==
    LET reduced == {tautologically_reduce_clause(cl) : cl \in c}
    IN  IF FALSE_CLAUSE \in reduced THEN FALSE_CNF
        ELSE IF reduced \ {TRUE_CLAUSE} = {} THEN TRUE_CNF
        ELSE reduced \ {TRUE_CLAUSE}

\* assign(cnf, assignment): substitute the Bool for each assigned variable
\* (negated under a negative literal), then reduce.
assign_literal(l, assignment) ==
    IF l.bool THEN l
    ELSE IF variable(absolute_value(l)) \in DOMAIN assignment
         THEN IF l.n > 0 THEN assignment[l.n] ELSE neg(assignment[0 - l.n])
         ELSE l

assign(c, assignment) ==
    tautologically_reduce_cnf(
        {{assign_literal(l, assignment) : l \in cl} : cl \in c})

---------------------------------------------------------------------------
(* sat.py: truth assignments and the brute-force strategy. *)

\* dict(zip(keys, values))
DictZip(keys, values) ==
    [k \in Range(keys) |-> values[CHOOSE i \in DOMAIN keys : keys[i] = k]]

\* As generate_assignments, but the Bools are not removed from literal_set.
generate_assignments_keeps_bools(c) ==
    LET cnf_reduced == tautologically_reduce_cnf(c)
        literal_set == literals_in_cnf(cnf_reduced)
        variable_set == {variable(absolute_value(l)) : l \in literal_set}
        variable_seq == SetToSeq(variable_set)
        assignment_values ==
            ItProduct([i \in 1..Cardinality(variable_set) |-> <<TRUE_LIT, FALSE_LIT>>])
    IN  [i \in DOMAIN assignment_values |->
            DictZip(variable_seq, assignment_values[i])]

generate_assignments(c) ==
    LET cnf_reduced == tautologically_reduce_cnf(c)
        literal_set == literals_in_cnf(cnf_reduced) \ {TRUE_LIT, FALSE_LIT}
        variable_set == {variable(absolute_value(l)) : l \in literal_set}
        variable_seq == SetToSeq(variable_set)
        assignment_values ==
            ItProduct([i \in 1..Cardinality(variable_set) |-> <<TRUE_LIT, FALSE_LIT>>])
    IN  [i \in DOMAIN assignment_values |->
            DictZip(variable_seq, assignment_values[i])]

\* any(filter(pred, seq)) where pred is simplifies_cnf_to_TRUE
RECURSIVE AnySimplifiesToTrue(_, _)
AnySimplifiesToTrue(cnf_reduced, assignments) ==
    IF assignments = <<>> THEN FALSE
    ELSE IF assign(cnf_reduced, Head(assignments)) = TRUE_CNF THEN TRUE
    ELSE AnySimplifiesToTrue(cnf_reduced, Tail(assignments))

\* As cnf_bruteforce_satcheck, but with all() where the code has any().
RECURSIVE AllSimplifyToTrue(_, _)
AllSimplifyToTrue(cnf_reduced, assignments) ==
    IF assignments = <<>> THEN TRUE
    ELSE IF assign(cnf_reduced, Head(assignments)) # TRUE_CNF THEN FALSE
    ELSE AllSimplifyToTrue(cnf_reduced, Tail(assignments))

cnf_bruteforce_satcheck_all(c) ==
    LET cnf_reduced == tautologically_reduce_cnf(c)
    IN  IF cnf_reduced = TRUE_CNF THEN TRUE
        ELSE IF cnf_reduced = FALSE_CNF THEN FALSE
        ELSE AllSimplifyToTrue(cnf_reduced, generate_assignments(cnf_reduced))

cnf_bruteforce_satcheck(c) ==
    LET cnf_reduced == tautologically_reduce_cnf(c)
    IN  IF cnf_reduced = TRUE_CNF THEN TRUE
        ELSE IF cnf_reduced = FALSE_CNF THEN FALSE
        ELSE AnySimplifiesToTrue(cnf_reduced, generate_assignments(cnf_reduced))

---------------------------------------------------------------------------
(* sat.py: DIMACS serialisation.  A text is the sequence of its characters. *)

Digit == <<"0", "1", "2", "3", "4", "5", "6", "7", "8", "9">>

\* str(n) for an int n
RECURSIVE StrNat(_)
StrNat(n) ==
    IF n < 10 THEN <<Digit[n + 1]>>
    ELSE StrNat(n \div 10) \o <<Digit[(n % 10) + 1]>>

Str(n) == IF n < 0 THEN <<"-">> \o StrNat(0 - n) ELSE StrNat(n)

\* sep.join(strs)
RECURSIVE Join(_, _)
Join(sep, strs) ==
    IF strs = <<>> THEN <<>>
    ELSE IF Len(strs) = 1 THEN Head(strs)
    ELSE Head(strs) \o sep \o Join(sep, Tail(strs))

\* ' '.join(map(str, clause)) + ' 0'
clause_str_with_tail(cl) ==
    LET literals == SetToSeq(cl)
    IN  Join(<<" ">>, [i \in DOMAIN literals |-> Str(literals[i].n)]) \o <<" ", "0">>

\* As cnf_to_dimacs, but the lines do not end with the 0.
cnf_to_dimacs_no_tail(c) ==
    LET cnf_reduced == tautologically_reduce_cnf(c)
        clauses == SetToSeq(cnf_reduced)
        line(cl) == LET literals == SetToSeq(cl)
                    IN  Join(<<" ">>, [i \in DOMAIN literals |-> Str(literals[i].n)])
    IN  IF cnf_reduced = TRUE_CNF THEN <<>>
        ELSE IF cnf_reduced = FALSE_CNF THEN <<"0">>
        ELSE Join(<<"\n">>, [i \in DOMAIN clauses |-> line(clauses[i])])

cnf_to_dimacs(c) ==
    LET cnf_reduced == tautologically_reduce_cnf(c)
        clauses == SetToSeq(cnf_reduced)
    IN  IF cnf_reduced = TRUE_CNF THEN <<>>
        ELSE IF cnf_reduced = FALSE_CNF THEN <<"0">>
        ELSE Join(<<"\n">>, [i \in DOMAIN clauses |-> clause_str_with_tail(clauses[i])])

---------------------------------------------------------------------------
(* str.split(): the maximal runs of non-whitespace characters. *)

Whitespace == {" ", "\n", "\t"}

RECURSIVE SplitAcc(_, _, _)
SplitAcc(t, tokens, current) ==
    IF t = <<>>
    THEN IF current = <<>> THEN tokens ELSE Append(tokens, current)
    ELSE IF Head(t) \in Whitespace
         THEN SplitAcc(Tail(t),
                       IF current = <<>> THEN tokens ELSE Append(tokens, current),
                       <<>>)
         ELSE SplitAcc(Tail(t), tokens, Append(current, Head(t)))

Split(t) == SplitAcc(t, <<>>, <<>>)

---------------------------------------------------------------------------
(* The external solver executable, as a correct satisfiability oracle on   *)
(* the DIMACS text it reads: integers separated by whitespace, each clause *)
(* ended by a 0.                                                           *)

DigitValue(ch) == (CHOOSE i \in DOMAIN Digit : Digit[i] = ch) - 1

RECURSIVE ParseNat(_, _)
ParseNat(token, acc) ==
    IF token = <<>> THEN acc
    ELSE ParseNat(Tail(token), 10 * acc + DigitValue(Head(token)))

ParseInt(token) ==
    IF Head(token) = "-" THEN 0 - ParseNat(Tail(token), 0) ELSE ParseNat(token, 0)

\* The clauses (sets of nonzero ints) of a sequence of ints, cut at each 0.
RECURSIVE ReadClauses(_, _, _)
ReadClauses(ints, clauses, current) ==
    IF ints = <<>> THEN clauses
    ELSE IF Head(ints) = 0
         THEN ReadClauses(Tail(ints), Append(clauses, current), {})
         ELSE ReadClauses(Tail(ints), clauses, current \cup {Head(ints)})

ParseDimacs(t) ==
    LET tokens == Split(t)
    IN  ReadClauses([i \in DOMAIN tokens |-> ParseInt(tokens[i])], <<>>, {})

Abs(n) == IF n < 0 THEN 0 - n ELSE n

\* Satisfiability of a sequence of integer clauses.
Satisfiable(clauses) ==
    LET vs == {Abs(n) : n \in UNION Range(clauses)}
    IN  \E v \in [vs -> BOOLEAN] :
            \A i \in DOMAIN clauses :
                \E n \in clauses[i] : IF n > 0 THEN v[n] ELSE ~v[0 - n]

SATISFIABLE == <<"S", "A", "T", "I", "S", "F", "I", "A", "B", "L", "E">>
UNSATISFIABLE == <<"U", "N">> \o SATISFIABLE
INDETERMINATE == <<"I", "N", "D", "E", "T", "E", "R", "M", "I", "N", "A", "T", "E">>
\* A line of the statistics minisat prints before its verdict.
Statistics == <<"r", "e", "s", "t", "a", "r", "t", "s", " ", ":", " ", "1", "\n">>

\* What a correct minisat prints last for the text it read.
MinisatVerdict(t) ==
    IF Satisfiable(ParseDimacs(t)) THEN SATISFIABLE ELSE UNSATISFIABLE

\* The standard outputs the subprocess may produce.
StdoutTexts ==
    {prefix \o last \o trailing :
        prefix \in {<<>>, Statistics, SATISFIABLE \o <<"\n">>},
        last \in {<<>>, SATISFIABLE, UNSATISFIABLE, INDETERMINATE},
        trailing \in {<<>>, <<"\n">>}}

---------------------------------------------------------------------------
(* sat.py: the subprocess strategy.  The outcome of a call is a record     *)
(* [ret, exc]: the value returned and the exception raised ("none").       *)

Returned(value) == [ret |-> value, exc |-> "none"]
Raised(exception) == [ret |-> FALSE, exc |-> exception]

\* Whether word ends token.
EndsWith(token, word) ==
    /\ Len(token) >= Len(word)
    /\ SubSeq(token, Len(token) - Len(word) + 1, Len(token)) = word

\* As minisat_result, but the verdict is matched by its ending.
minisat_result_by_suffix(output) ==
    LET tokens == Split(output)
    IN  IF tokens = <<>> THEN Raised("IndexError")
        ELSE LET result == tokens[Len(tokens)]
             IN  IF EndsWith(result, SATISFIABLE) THEN Returned(TRUE)
                 ELSE IF result = UNSATISFIABLE THEN Returned(FALSE)
                 ELSE Raised("RuntimeError")

\* The part of cnf_minisat_satcheck after subprocess.run: output is its stdout.
minisat_result(output) ==
    LET tokens == Split(output)
    IN  IF tokens = <<>> THEN Raised("IndexError")
        ELSE LET result == tokens[Len(tokens)]
             IN  IF result = SATISFIABLE THEN Returned(TRUE)
                 ELSE IF result = UNSATISFIABLE THEN Returned(FALSE)
                 ELSE Raised("RuntimeError")

\* cnf_minisat_satcheck when the subprocess prints output.
cnf_minisat_satcheck(c, output) ==
    LET cnf_dimacs == cnf_to_dimacs(c)
        outcome == minisat_result(output)
    IN  [dimacs |-> cnf_dimacs, ret |-> outcome.ret, exc |-> outcome.exc]

\* What a correctly installed minisat prints for the text it read.
minisat_stdout(t) == Statistics \o MinisatVerdict(t) \o <<"\n">>

---------------------------------------------------------------------------
(* sat.py: the library strategy.  The external library is a correct        *)
(* satisfiability oracle on the clauses it is given; it may reject         *)
(* (ValueError) a CNF that holds a Bool where it expects an int.           *)

HasBool(c) == \E cl \in c : \E l \in cl : l.bool

\* Satisfiability of a CNF as given, TRUE/FALSE literals read as constants.
SatisfiableCnf(c) ==
    LET vs == {Abs(l.n) : l \in {k \in UNION c : ~k.bool}}
    IN  \E v \in [vs -> BOOLEAN] :
            \A cl \in c :
                \E l \in cl :
                    IF l.bool THEN l = TRUE_LIT
                    ELSE IF l.n > 0 THEN v[l.n] ELSE ~v[0 - l.n]

\* Minisat22(c).solve(); rejects says whether the library rejects c.
Minisat22_solve(c, rejects) ==
    IF rejects THEN Raised("ValueError") ELSE Returned(SatisfiableCnf(c))

\* As cnf_pysat_satcheck, but the reduced CNF goes to the library whatever it
\* reduced to.
cnf_pysat_satcheck_always_retries(c, rejects) ==
    LET first == Minisat22_solve(c, rejects)
        cnf_reduced == tautologically_reduce_cnf(c)
    IN  IF first.exc = "none"
        THEN [ret |-> first.ret, exc |-> "none", calls |-> 1, solved |-> <<c>>]
        ELSE LET second == Minisat22_solve(cnf_reduced, FALSE)
             IN  [ret |-> second.ret, exc |-> second.exc, calls |-> 2,
                  solved |-> <<c, cnf_reduced>>]

\* The outcome, the number of library calls made and the CNFs they were given.
cnf_pysat_satcheck(c, rejects) ==
    LET first == Minisat22_solve(c, rejects)
        cnf_reduced == tautologically_reduce_cnf(c)
    IN  IF first.exc = "none"
        THEN [ret |-> first.ret, exc |-> "none", calls |-> 1, solved |-> <<c>>]
        ELSE IF cnf_reduced = TRUE_CNF
        THEN [ret |-> TRUE, exc |-> "none", calls |-> 1, solved |-> <<c>>]
        ELSE IF cnf_reduced = FALSE_CNF
        THEN [ret |-> FALSE, exc |-> "none", calls |-> 1, solved |-> <<c>>]
        ELSE LET second == Minisat22_solve(cnf_reduced, FALSE)
             IN  [ret |-> second.ret, exc |-> second.exc, calls |-> 2,
                  solved |-> <<c, cnf_reduced>>]

---------------------------------------------------------------------------
(* sat.py: CNFs from MHGraphs.  An HEdge is a set of vertices; an MHGraph  *)
(* is the sequence of its items(), pairs <<hedge, multiplicity>>.          *)

\* As literals_from_vertex, but the second literal is not negated.
literals_from_vertex_not_negated(vertex) == <<Lit(vertex), Lit(vertex)>>

literals_from_vertex(vertex) == <<Lit(vertex), neg(Lit(vertex))>>

\* cnf.clause / cnf.cnf of a tuple: the frozenset of its elements.
clause(literal_tuple) == Range(literal_tuple)
cnf(clause_tuple) == Range(clause_tuple)

clauses_from_hedge(hedge) ==
    LET vertices == SetToSeq(hedge)
        literal_combinations ==
            ItProduct([i \in DOMAIN vertices |-> literals_from_vertex(vertices[i])])
    IN  [i \in DOMAIN literal_combinations |-> clause(literal_combinations[i])]

\* The outcome of an iterator-returning call: yields is what the iterator
\* yields, exc the exception raised (at the call, or after the yields).
Yields(values) == [yields |-> values, exc |-> "none"]
Raises(exception) == [yields |-> <<>>, exc |-> exception]

\* As cnfs_from_hedge, but with every multiplicity-tuple of clauses where the
\* code takes the combinations.
cnfs_from_hedge_all_tuples(hedge, multiplicity) ==
    IF ~(1 <= multiplicity /\ multiplicity <= Pow2(Cardinality(hedge)))
    THEN Raises("ValueError")
    ELSE LET clause_tuples ==
                 ItProduct([i \in 1..multiplicity |-> clauses_from_hedge(hedge)])
         IN  Yields([i \in DOMAIN clause_tuples |-> cnf(clause_tuples[i])])

cnfs_from_hedge(hedge, multiplicity) ==
    IF ~(1 <= multiplicity /\ multiplicity <= Pow2(Cardinality(hedge)))
    THEN Raises("ValueError")
    ELSE LET clause_tuples == ItCombinations(clauses_from_hedge(hedge), multiplicity)
         IN  Yields([i \in DOMAIN clause_tuples |-> cnf(clause_tuples[i])])

\* As cnfs_from_mhgraph, but cnfs_from_hedge runs only when the product first
\* needs the item: the CNFs of the items before the offending one are yielded
\* before the error is raised.
cnfs_from_mhgraph_lazy(m) ==
    LET cnf_iterators == [i \in DOMAIN m |-> cnfs_from_hedge(m[i][1], m[i][2])]
        bad == {i \in DOMAIN m : cnf_iterators[i].exc # "none"}
        first_bad == CHOOSE i \in bad : \A j \in bad : i <= j
        cnf_tuples(n) == ItProduct([i \in 1..n |-> cnf_iterators[i].yields])
        unions(n) == [i \in DOMAIN cnf_tuples(n) |-> UNION Range(cnf_tuples(n)[i])]
    IN  IF bad # {}
        THEN [yields |-> IF first_bad = 1 THEN <<>> ELSE unions(first_bad - 1),
              exc |-> "ValueError"]
        ELSE Yields(unions(Len(m)))

\* it.product(*cnf_iterators) exhausts the starmap at the call: cnfs_from_hedge
\* runs for every item, in order, before anything is yielded.
cnfs_from_mhgraph(m) ==
    LET cnf_iterators == [i \in DOMAIN m |-> cnfs_from_hedge(m[i][1], m[i][2])]
    IN  IF \E i \in DOMAIN m : cnf_iterators[i].exc # "none"
        THEN Raises("ValueError")
        ELSE LET cnf_tuples == ItProduct([i \in DOMAIN m |-> cnf_iterators[i].yields])
             IN  Yields([i \in DOMAIN cnf_tuples |-> UNION Range(cnf_tuples[i])])

---------------------------------------------------------------------------
(* sat.py: sat-checking MHGraphs.  all(map(check, cnfs)) stops at the      *)
(* first CNF that is not satisfiable.                                      *)

RECURSIVE AllBruteforce(_)
AllBruteforce(cnfs) ==
    IF cnfs = <<>> THEN TRUE
    ELSE IF ~cnf_bruteforce_satcheck(Head(cnfs)) THEN FALSE
    ELSE AllBruteforce(Tail(cnfs))

RECURSIVE AllPysat(_)
AllPysat(cnfs) ==
    IF cnfs = <<>> THEN TRUE
    ELSE IF ~cnf_pysat_satcheck(Head(cnfs), FALSE).ret THEN FALSE
    ELSE AllPysat(Tail(cnfs))

RECURSIVE AllMinisat(_)
AllMinisat(cnfs) ==
    IF cnfs = <<>> THEN TRUE
    ELSE IF ~cnf_minisat_satcheck(Head(cnfs),
                                  minisat_stdout(cnf_to_dimacs(Head(cnfs)))).ret
         THEN FALSE
    ELSE AllMinisat(Tail(cnfs))

\* As mhgraph_bruteforce_satcheck, but with any() where the code has all().
mhgraph_bruteforce_satcheck_any(m) ==
    LET cnfs == cnfs_from_mhgraph(m)
    IN  IF cnfs.exc # "none" THEN Raised(cnfs.exc)
        ELSE Returned(\E i \in DOMAIN cnfs.yields :
                          cnf_bruteforce_satcheck(cnfs.yields[i]))

mhgraph_bruteforce_satcheck(m) ==
    LET cnfs == cnfs_from_mhgraph(m)
    IN  IF cnfs.exc # "none" THEN Raised(cnfs.exc)
        ELSE Returned(AllBruteforce(cnfs.yields))

mhgraph_pysat_satcheck(m) ==
    LET cnfs == cnfs_from_mhgraph(m)
    IN  IF cnfs.exc # "none" THEN Raised(cnfs.exc)
        ELSE Returned(AllPysat(cnfs.yields))

mhgraph_minisat_satcheck(m) ==
    LET cnfs == cnfs_from_mhgraph(m)
    IN  IF cnfs.exc # "none" THEN Raised(cnfs.exc)
        ELSE Returned(AllMinisat(cnfs.yields))

---------------------------------------------------------------------------
(* sat.py: the MHGraph of a CNF. *)

\* mhgraph.mhgraph(list): a Counter of the vertex-sets, in order of first
\* occurrence.
RECURSIVE CountInto(_, _)
CountInto(items, hedges) ==
    IF hedges = <<>> THEN items
    ELSE LET h == Head(hedges)
         IN  IF \E i \in DOMAIN items : items[i][1] = h
             THEN CountInto([i \in DOMAIN items |->
                               IF items[i][1] = h
                               THEN <<h, items[i][2] + 1>> ELSE items[i]],
                            Tail(hedges))
             ELSE CountInto(Append(items, <<h, 1>>), Tail(hedges))

mhgraph(hedge_list) == CountInto(<<>>, hedge_list)

\* An MHGraph as the mapping it is: equality of MHGraphs ignores item order.
AsDict(m) ==
    [h \in {m[i][1] : i \in DOMAIN m} |->
        m[CHOOSE i \in DOMAIN m : m[i][1] = h][2]]

\* As mhgraph_from_cnf, but the vertex-sets are taken from the CNF as given.
mhgraph_from_cnf_unreduced(c) ==
    LET reduced_cnf == tautologically_reduce_cnf(c)
        clauses == SetToSeq(c)
        cnf_with_abs_variables ==
            [i \in DOMAIN clauses |->
                {variable(absolute_value(l)) : l \in clauses[i]}]
    IN  IF reduced_cnf \in {TRUE_CNF, FALSE_CNF}
        THEN [ret |-> <<>>, exc |-> "ValueError"]
        ELSE [ret |-> mhgraph(cnf_with_abs_variables), exc |-> "none"]

mhgraph_from_cnf(c) ==
    LET reduced_cnf == tautologically_reduce_cnf(c)
        clauses == SetToSeq(reduced_cnf)
        cnf_with_abs_variables ==
            [i \in DOMAIN clauses |->
                {variable(absolute_value(l)) : l \in clauses[i]}]
    IN  IF reduced_cnf \in {TRUE_CNF, FALSE_CNF}
        THEN [ret |-> <<>>, exc |-> "ValueError"]
        ELSE [ret |-> mhgraph(cnf_with_abs_variables), exc |-> "none"]

---------------------------------------------------------------------------
(* Inputs. *)

Variables == 1..MaxVar
Literals == {Lit(v) : v \in Variables} \cup {Lit(0 - v) : v \in Variables}
              \cup {TRUE_LIT, FALSE_LIT}

ClausesOfLen(n) == {cl \in SUBSET Literals : Cardinality(cl) = n}

\* The CNFs (nonempty sets of nonempty clauses) with exactly s literal occurrences.
RECURSIVE CNFsOfSize(_)
CNFsOfSize(s) ==
    {{cl} : cl \in ClausesOfLen(s)}
    \cup UNION {LET smaller == CNFsOfSize(s - k)
                IN  UNION {{c \cup {cl} : c \in {d \in smaller : cl \notin d}} :
                             cl \in ClausesOfLen(k)} :
                  k \in 1..(s - 1)}

cnf_bruteforce_example ==
    {{Lit(1), Lit(2)}, {Lit(1), Lit(-2)}, {Lit(-1), Lit(2)}, {Lit(-1), Lit(-2)}}
mhgraph_from_cnf_example ==
    {{Lit(1), Lit(-2)}, {Lit(2), Lit(3), Lit(4)}, {Lit(1), Lit(2)}}

CNFInputs ==
    UNION {CNFsOfSize(s) : s \in 1..MaxSize}
    \cup {cnf_bruteforce_example, mhgraph_from_cnf_example}

HEdges == (SUBSET Variables) \ {{}}
Items == {<<h, m>> : h \in HEdges, m \in 0..MaxMult}

mhgraph_satcheck_example == << <<{1, 2}, 1>>, <<{2, 3}, 1>> >>

\* MHGraphs of one or two HEdges, in either insertion order.
MHGraphInputs ==
    {<<a>> : a \in Items}
    \cup {p \in Items \X Items : p[1][1] # p[2][1]}
    \cup {mhgraph_satcheck_example}

---------------------------------------------------------------------------
Init ==
    /\ \/ cnf_instance \in CNFInputs /\ mhgraph_instance = <<>>
       \/ cnf_instance = {} /\ mhgraph_instance \in MHGraphInputs
    /\ pc = "ready"
    /\ verdict = FALSE
    /\ raised = "none"
    /\ yielded = <<>>
    /\ text = <<>>
    /\ stdout = <<>>
    /\ graph = <<>>
    /\ calls = 0
    /\ rejected = FALSE
    /\ hedge_item = <<>>
    /\ solved = <<>>

GenerateAssignments ==
    /\ pc = "ready"
    /\ cnf_instance # {}
    /\ pc' = "generate_assignments"
    /\ yielded' = generate_assignments(cnf_instance)
    /\ UNCHANGED <<cnf_instance, mhgraph_instance, verdict, raised, text,
                   stdout, graph, calls, rejected, hedge_item, solved>>

CnfBruteforceSatcheck ==
    /\ pc = "ready"
    /\ cnf_instance # {}
    /\ pc' = "cnf_bruteforce_satcheck"
    /\ verdict' = cnf_bruteforce_satcheck(cnf_instance)
    /\ UNCHANGED <<cnf_instance, mhgraph_instance, raised, yielded, text,
                   stdout, graph, calls, rejected, hedge_item, solved>>

\* The library may reject a CNF that holds a Bool literal.
CnfPysatSatcheck ==
    /\ pc = "ready"
    /\ cnf_instance # {}
    /\ \E rejects \in (IF HasBool(cnf_instance) THEN BOOLEAN ELSE {FALSE}) :
        LET outcome == cnf_pysat_satcheck(cnf_instance, rejects)
        IN  /\ pc' = "cnf_pysat_satcheck"
            /\ verdict' = outcome.ret
            /\ raised' = outcome.exc
            /\ calls' = outcome.calls
            /\ rejected' = rejects
            /\ solved' = outcome.solved
    /\ UNCHANGED <<cnf_instance, mhgraph_instance, yielded, text, stdout,
                   graph, hedge_item>>

CnfToDimacs ==
    /\ pc = "ready"
    /\ cnf_instance # {}
    /\ pc' = "cnf_to_dimacs"
    /\ text' = cnf_to_dimacs(cnf_instance)
    /\ UNCHANGED <<cnf_instance, mhgraph_instance, verdict, raised, yielded,
                   stdout, graph, calls, rejected, hedge_item, solved>>

\* subprocess.run is called once; whatever the subprocess printed is parsed.
CnfMinisatSatcheck ==
    /\ pc = "ready"
    /\ cnf_instance # {}
    /\ \E output \in StdoutTexts \cup {minisat_stdout(cnf_to_dimacs(cnf_instance))} :
        LET outcome == cnf_minisat_satcheck(cnf_instance, output)
        IN  /\ pc' = "cnf_minisat_satcheck"
            /\ text' = outcome.dimacs
            /\ stdout' = output
            /\ calls' = 1
            /\ verdict' = outcome.ret
            /\ raised' = outcome.exc
    /\ UNCHANGED <<cnf_instance, mhgraph_instance, yielded, graph, rejected,
                   hedge_item, solved>>

MhgraphFromCnf ==
    /\ pc = "ready"
    /\ cnf_instance # {}
    /\ pc' = "mhgraph_from_cnf"
    /\ graph' = mhgraph_from_cnf(cnf_instance).ret
    /\ raised' = mhgraph_from_cnf(cnf_instance).exc
    /\ UNCHANGED <<cnf_instance, mhgraph_instance, verdict, yielded, text,
                   stdout, calls, rejected, hedge_item, solved>>

\* cnfs_from_hedge called on one item of the MHGraph.
CnfsFromHedge ==
    /\ pc = "ready"
    /\ \E i \in DOMAIN mhgraph_instance :
        LET outcome == cnfs_from_hedge(mhgraph_instance[i][1], mhgraph_instance[i][2])
        IN  /\ pc' = "cnfs_from_hedge"
            /\ hedge_item' = mhgraph_instance[i]
            /\ yielded' = outcome.yields
            /\ raised' = outcome.exc
    /\ UNCHANGED <<cnf_instance, mhgraph_instance, verdict, text, stdout,
                   graph, calls, rejected, solved>>

CnfsFromMhgraph ==
    /\ pc = "ready"
    /\ mhgraph_instance # <<>>
    /\ pc' = "cnfs_from_mhgraph"
    /\ yielded' = cnfs_from_mhgraph(mhgraph_instance).yields
    /\ raised' = cnfs_from_mhgraph(mhgraph_instance).exc
    /\ UNCHANGED <<cnf_instance, mhgraph_instance, verdict, text, stdout,
                   graph, calls, rejected, hedge_item, solved>>

MhgraphBruteforceSatcheck ==
    /\ pc = "ready"
    /\ mhgraph_instance # <<>>
    /\ pc' = "mhgraph_bruteforce_satcheck"
    /\ verdict' = mhgraph_bruteforce_satcheck(mhgraph_instance).ret
    /\ raised' = mhgraph_bruteforce_satcheck(mhgraph_instance).exc
    /\ UNCHANGED <<cnf_instance, mhgraph_instance, yielded, text, stdout,
                   graph, calls, rejected, hedge_item, solved>>

MhgraphPysatSatcheck ==
    /\ pc = "ready"
    /\ mhgraph_instance # <<>>
    /\ pc' = "mhgraph_pysat_satcheck"
    /\ verdict' = mhgraph_pysat_satcheck(mhgraph_instance).ret
    /\ raised' = mhgraph_pysat_satcheck(mhgraph_instance).exc
    /\ UNCHANGED <<cnf_instance, mhgraph_instance, yielded, text, stdout,
                   graph, calls, rejected, hedge_item, solved>>

MhgraphMinisatSatcheck ==
    /\ pc = "ready"
    /\ mhgraph_instance # <<>>
    /\ pc' = "mhgraph_minisat_satcheck"
    /\ verdict' = mhgraph_minisat_satcheck(mhgraph_instance).ret
    /\ raised' = mhgraph_minisat_satcheck(mhgraph_instance).exc
    /\ UNCHANGED <<cnf_instance, mhgraph_instance, yielded, text, stdout,
                   graph, calls, rejected, hedge_item, solved>>

Next ==
    \/ GenerateAssignments
    \/ CnfBruteforceSatcheck
    \/ CnfPysatSatcheck
    \/ CnfToDimacs
    \/ CnfMinisatSatcheck
    \/ MhgraphFromCnf
    \/ CnfsFromHedge
    \/ CnfsFromMhgraph
    \/ MhgraphBruteforceSatcheck
    \/ MhgraphPysatSatcheck
    \/ MhgraphMinisatSatcheck

Spec == Init /\ [][Next]_vars

---------------------------------------------------------------------------
(* The claims.                                                             *)

\* The free variables of a CNF: the absolute values of its int literals.
FreeVariables(c) == {Abs(l.n) : l \in {k \in UNION c : ~k.bool}}

NonTrivial(c) == tautologically_reduce_cnf(c) \notin {TRUE_CNF, FALSE_CNF}

Bools == {TRUE_LIT, FALSE_LIT}

\* The subprocess printed what a correct solver prints for the text it read:
\* its last token is the verdict of the DIMACS text.
SolverCorrect ==
    /\ Split(stdout) # <<>>
    /\ Split(stdout)[Len(Split(stdout))] = MinisatVerdict(text)

\* C1: on every CNF, the library strategy and (when the subprocess prints a
\* correct solver's output for the DIMACS text it was given) the subprocess
\* strategy return, without raising, the verdict of the brute-force strategy.
C1_StrategyAgreement ==
    /\ (pc = "cnf_pysat_satcheck") =>
          /\ raised = "none"
          /\ verdict = cnf_bruteforce_satcheck(cnf_instance)
    /\ (pc = "cnf_minisat_satcheck" /\ SolverCorrect) =>
          /\ raised = "none"
          /\ verdict = cnf_bruteforce_satcheck(cnf_instance)

\* A non-trivial unsatisfiable CNF on which the subprocess strategy, fed by a
\* correct solver, answered False.
C1_Witness ==
    /\ pc = "cnf_minisat_satcheck"
    /\ SolverCorrect
    /\ NonTrivial(cnf_instance)
    /\ raised = "none"
    /\ verdict = FALSE

\* C2: cnf_bruteforce_satcheck returns True on a CNF that reduces to
\* TRUE_CNF, False on one that reduces to FALSE_CNF, and otherwise True
\* exactly when some total assignment of the free variables of the reduced
\* CNF makes assign() give TRUE_CNF; it returns False on the four
\* sign-combinations over two variables.
C2_BruteforceVerdict ==
    (pc = "cnf_bruteforce_satcheck") =>
        LET r == tautologically_reduce_cnf(cnf_instance)
        IN  /\ (r = TRUE_CNF) => verdict
            /\ (r = FALSE_CNF) => ~verdict
            /\ (r \notin {TRUE_CNF, FALSE_CNF}) =>
                  (verdict <=> \E a \in [FreeVariables(r) -> Bools] :
                                    assign(r, a) = TRUE_CNF)
            /\ (cnf_instance = cnf_bruteforce_example) => ~verdict

\* The brute-force strategy answered False on the four sign-combinations.
C2_Witness ==
    /\ pc = "cnf_bruteforce_satcheck"
    /\ cnf_instance = cnf_bruteforce_example
    /\ verdict = FALSE

\* C7: generate_assignments yields exactly 2^n pairwise distinct mappings,
\* each from exactly the n free variables of the reduced CNF to TRUE/FALSE,
\* so that every total assignment is yielded; for n = 0 it yields the empty
\* mapping alone.
C7_AllAssignments ==
    (pc = "generate_assignments") =>
        LET vs == FreeVariables(tautologically_reduce_cnf(cnf_instance))
            n == Cardinality(vs)
        IN  /\ Len(yielded) = Pow2(n)
            /\ \A i, j \in DOMAIN yielded : (i # j) => (yielded[i] # yielded[j])
            /\ \A i \in DOMAIN yielded :
                  /\ DOMAIN yielded[i] = vs
                  /\ \A v \in vs : yielded[i][v] \in Bools
            /\ \A a \in [vs -> Bools] : \E i \in DOMAIN yielded : yielded[i] = a
            /\ (n = 0) => (Len(yielded) = 1 /\ DOMAIN yielded[1] = {})

\* The four assignments of a CNF with two free variables were yielded.
C7_Witness ==
    /\ pc = "generate_assignments"
    /\ Cardinality(FreeVariables(tautologically_reduce_cnf(cnf_instance))) = 2
    /\ Len(yielded) = 4

\* Every multiplicity of an MHGraph lies in 1..2^|hedge|.
InRange(item) == 1 <= item[2] /\ item[2] <= Pow2(Cardinality(item[1]))
AllInRange(m) == \A i \in DOMAIN m : InRange(m[i])

\* The variable-support of a clause.
Support(cl) == {Abs(l.n) : l \in cl}

\* C3: every CNF yielded by cnfs_from_mhgraph(M), M with in-range
\* multiplicities, has M as its MHGraph: mhgraph_from_cnf gives a mapping equal
\* to M, i.e. the supports of its clauses are the HEdges of M and each HEdge is
\* the support of exactly mult(e) of its clauses.
C3_ForwardThenBackward ==
    (pc = "cnfs_from_mhgraph" /\ AllInRange(mhgraph_instance)) =>
        /\ raised = "none"
        /\ \A i \in DOMAIN yielded :
              /\ mhgraph_from_cnf(yielded[i]).exc = "none"
              /\ AsDict(mhgraph_from_cnf(yielded[i]).ret) = AsDict(mhgraph_instance)
              /\ {Support(cl) : cl \in yielded[i]}
                    = {mhgraph_instance[k][1] : k \in DOMAIN mhgraph_instance}
              /\ \A k \in DOMAIN mhgraph_instance :
                    Cardinality({cl \in yielded[i] :
                                    Support(cl) = mhgraph_instance[k][1]})
                        = mhgraph_instance[k][2]

\* CNFs were yielded for an MHGraph of two HEdges, one of multiplicity >= 2.
C3_Witness ==
    /\ pc = "cnfs_from_mhgraph"
    /\ Len(mhgraph_instance) = 2
    /\ \E k \in DOMAIN mhgraph_instance : mhgraph_instance[k][2] >= 2
    /\ raised = "none"
    /\ Len(yielded) >= 2

\* The product over the items of C(2^|hedge|, multiplicity).
RECURSIVE BinomialProduct(_)
BinomialProduct(m) ==
    IF m = <<>> THEN 1
    ELSE Binomial(Pow2(Cardinality(Head(m)[1])), Head(m)[2])
            * BinomialProduct(Tail(m))

\* C4: for an MHGraph with in-range multiplicities cnfs_from_mhgraph yields
\* exactly the product over the HEdges of C(2^|e|, mult(e)) CNFs, and no CNF
\* twice.
C4_CountAndDistinct ==
    (pc = "cnfs_from_mhgraph" /\ AllInRange(mhgraph_instance)) =>
        /\ raised = "none"
        /\ Len(yielded) = BinomialProduct(mhgraph_instance)
        /\ \A i, j \in DOMAIN yielded : (i # j) => (yielded[i] # yielded[j])

\* The 6 * 2 = 12 CNFs of an MHGraph {1,2}: 2 with a one-vertex HEdge of
\* multiplicity 1 (or any other MHGraph of two HEdges with 12 CNFs).
C4_Witness ==
    /\ pc = "cnfs_from_mhgraph"
    /\ Len(mhgraph_instance) = 2
    /\ raised = "none"
    /\ Len(yielded) = 12

\* C5: for a CNF that does not reduce to TRUE_CNF/FALSE_CNF, mhgraph_from_cnf
\* returns the MHGraph whose HEdges are the variable-supports of the clauses
\* of the reduced CNF, each with the number of clauses having that support as
\* its multiplicity; the CNF [[1,-2],[2,3,4],[1,2]] gives {1,2}: 2, {2,3,4}: 1.
C5_SupportingMHGraph ==
    (pc = "mhgraph_from_cnf" /\ NonTrivial(cnf_instance)) =>
        LET r == tautologically_reduce_cnf(cnf_instance)
        IN  /\ raised = "none"
            /\ {graph[k][1] : k \in DOMAIN graph} = {Support(cl) : cl \in r}
            /\ \A j, k \in DOMAIN graph : (j # k) => (graph[j][1] # graph[k][1])
            /\ \A k \in DOMAIN graph :
                  graph[k][2] = Cardinality({cl \in r : Support(cl) = graph[k][1]})
            /\ (cnf_instance = mhgraph_from_cnf_example) =>
                  /\ Len(graph) = 2
                  /\ \A k \in DOMAIN graph :
                        \/ graph[k] = <<{1, 2}, 2>>
                        \/ graph[k] = <<{2, 3, 4}, 1>>

\* The MHGraph of the example CNF was returned.
C5_Witness ==
    /\ pc = "mhgraph_from_cnf"
    /\ cnf_instance = mhgraph_from_cnf_example
    /\ raised = "none"
    /\ \E k \in DOMAIN graph : graph[k][2] = 2

\* C6: for an MHGraph with in-range multiplicities each mhgraph_*_satcheck
\* returns True exactly when its CNF-level strategy (the external tools being
\* correct) finds every CNF yielded by cnfs_from_mhgraph satisfiable;
\* mhgraph([[1,2],[2,3]]) gives True.
C6_MhgraphSatcheck ==
    LET cnfs == cnfs_from_mhgraph(mhgraph_instance).yields
    IN  /\ (pc = "mhgraph_bruteforce_satcheck" /\ AllInRange(mhgraph_instance)) =>
              /\ raised = "none"
              /\ verdict <=> \A i \in DOMAIN cnfs : cnf_bruteforce_satcheck(cnfs[i])
              /\ (mhgraph_instance = mhgraph_satcheck_example) => verdict
        /\ (pc = "mhgraph_pysat_satcheck" /\ AllInRange(mhgraph_instance)) =>
              /\ raised = "none"
              /\ verdict <=> \A i \in DOMAIN cnfs :
                                cnf_pysat_satcheck(cnfs[i], FALSE).ret
        /\ (pc = "mhgraph_minisat_satcheck" /\ AllInRange(mhgraph_instance)) =>
              /\ raised = "none"
              /\ verdict <=> \A i \in DOMAIN cnfs :
                                cnf_minisat_satcheck(
                                    cnfs[i], minisat_stdout(cnf_to_dimacs(cnfs[i]))).ret

\* mhgraph_bruteforce_satcheck returned True on the example.
C6_Witness ==
    /\ pc = "mhgraph_bruteforce_satcheck"
    /\ mhgraph_instance = mhgraph_satcheck_example
    /\ raised = "none"
    /\ verdict = TRUE

\* C8: cnfs_from_hedge raises ValueError, yielding nothing, when the
\* multiplicity is below 1 or above 2^|hedge|; cnfs_from_mhgraph and the
\* mhgraph_*_satcheck functions on an MHGraph with such an item, wherever it
\* stands, raise it without a CNF yielded or a verdict returned.
C8_MultiplicityError ==
    /\ (pc = "cnfs_from_hedge" /\ ~InRange(hedge_item)) =>
          (raised = "ValueError" /\ yielded = <<>>)
    /\ (pc = "cnfs_from_mhgraph" /\ ~AllInRange(mhgraph_instance)) =>
          (raised = "ValueError" /\ yielded = <<>>)
    /\ (pc \in {"mhgraph_bruteforce_satcheck", "mhgraph_pysat_satcheck",
                "mhgraph_minisat_satcheck"} /\ ~AllInRange(mhgraph_instance)) =>
          raised = "ValueError"

\* cnfs_from_mhgraph raised on an MHGraph whose first item is in range and
\* whose second is not.
C8_Witness ==
    /\ pc = "cnfs_from_mhgraph"
    /\ Len(mhgraph_instance) = 2
    /\ InRange(mhgraph_instance[1])
    /\ ~InRange(mhgraph_instance[2])
    /\ raised = "ValueError"

\* str.split(sep): the fields between the occurrences of the character sep.
RECURSIVE SplitOnAcc(_, _, _, _)
SplitOnAcc(t, sep, fields, current) ==
    IF t = <<>> THEN Append(fields, current)
    ELSE IF Head(t) = sep
         THEN SplitOnAcc(Tail(t), sep, Append(fields, current), <<>>)
         ELSE SplitOnAcc(Tail(t), sep, fields, Append(current, Head(t)))

SplitOn(t, sep) == SplitOnAcc(t, sep, <<>>, <<>>)

\* The ints a line of one-space-separated fields holds before its last field.
LineLiterals(line) ==
    LET fields == SplitOn(line, " ")
    IN  {ParseInt(fields[i]) : i \in 1..(Len(fields) - 1)}

\* A line is int fields separated by single spaces, the last one the 0.
WellFormedLine(line) ==
    LET fields == SplitOn(line, " ")
    IN  /\ Len(fields) >= 2
        /\ fields[Len(fields)] = <<"0">>
        /\ \A i \in 1..(Len(fields) - 1) :
              /\ fields[i] # <<>>
              /\ ParseInt(fields[i]) # 0
              /\ Str(ParseInt(fields[i])) = fields[i]
        /\ \A i, j \in 1..(Len(fields) - 1) : (i # j) => (fields[i] # fields[j])

\* C9: cnf_to_dimacs returns the empty text for a CNF reducing to TRUE_CNF,
\* "0" for one reducing to FALSE_CNF, and otherwise one line per clause of the
\* reduced CNF and nothing else: the lines are the clauses, each the clause's
\* ints separated by single spaces and ended by 0, so that reading the text
\* back gives the clauses of the reduced CNF.
C9_Dimacs ==
    (pc = "cnf_to_dimacs") =>
        LET r == tautologically_reduce_cnf(cnf_instance)
            lines == SplitOn(text, "\n")
            ints(cl) == {l.n : l \in cl}
        IN  /\ (r = TRUE_CNF) => (text = <<>>)
            /\ (r = FALSE_CNF) => (text = <<"0">>)
            /\ (r \notin {TRUE_CNF, FALSE_CNF}) =>
                  /\ Len(lines) = Cardinality(r)
                  /\ \A i \in DOMAIN lines : WellFormedLine(lines[i])
                  /\ {LineLiterals(lines[i]) : i \in DOMAIN lines}
                        = {ints(cl) : cl \in r}
                  /\ \A i \in DOMAIN lines :
                        Len(SplitOn(lines[i], " ")) = Cardinality(LineLiterals(lines[i])) + 1
                  /\ Range(ParseDimacs(text)) = {ints(cl) : cl \in r}
                  /\ Len(ParseDimacs(text)) = Cardinality(r)

\* The text of a CNF of two clauses or more, one with a negative literal.
C9_Witness ==
    /\ pc = "cnf_to_dimacs"
    /\ NonTrivial(cnf_instance)
    /\ Cardinality(tautologically_reduce_cnf(cnf_instance)) >= 2
    /\ \E i \in DOMAIN text : text[i] = "-"
    /\ \E i \in DOMAIN text : text[i] = "\n"

\* C10: whatever the subprocess printed, cnf_minisat_satcheck returns True if
\* the last whitespace-delimited token is SATISFIABLE, False if it is
\* UNSATISFIABLE, and in every other case (no token at all included) raises
\* the RuntimeError that carries the output; the subprocess ran once.
C10_UnexpectedOutput ==
    (pc = "cnf_minisat_satcheck") =>
        LET tokens == Split(stdout)
            last == IF tokens = <<>> THEN <<>> ELSE tokens[Len(tokens)]
        IN  /\ calls = 1
            /\ (last = SATISFIABLE) => (raised = "none" /\ verdict = TRUE)
            /\ (last = UNSATISFIABLE) => (raised = "none" /\ verdict = FALSE)
            /\ (last \notin {SATISFIABLE, UNSATISFIABLE}) => (raised = "RuntimeError")

\* The library's verdict on the clauses it is given.
LibraryVerdict(c) == Minisat22_solve(c, FALSE).ret

\* C11: in cnf_pysat_satcheck a rejection of the CNF as given never reaches
\* the caller: the call returns True/False with no further library call when
\* the CNF reduces to TRUE_CNF/FALSE_CNF, and otherwise the library's verdict
\* on the reduced CNF after exactly one more library call, on the reduced CNF;
\* when the library accepts the CNF as given it is called once, on that CNF
\* unreduced, and its verdict is returned.
C11_PysatFallback ==
    (pc = "cnf_pysat_satcheck") =>
        LET r == tautologically_reduce_cnf(cnf_instance)
        IN  /\ rejected =>
                  /\ raised = "none"
                  /\ (r = TRUE_CNF) => (verdict = TRUE /\ solved = <<cnf_instance>>)
                  /\ (r = FALSE_CNF) => (verdict = FALSE /\ solved = <<cnf_instance>>)
                  /\ (r \notin {TRUE_CNF, FALSE_CNF}) =>
                        /\ solved = <<cnf_instance, r>>
                        /\ verdict = LibraryVerdict(r)
            /\ ~rejected =>
                  /\ raised = "none"
                  /\ solved = <<cnf_instance>>
                  /\ verdict = LibraryVerdict(cnf_instance)
            /\ calls = Len(solved)

\* The library rejected a CNF that does not reduce to TRUE_CNF/FALSE_CNF and
\* was called again on its reduction.
C11_Witness ==
    /\ pc = "cnf_pysat_satcheck"
    /\ rejected
    /\ NonTrivial(cnf_instance)
    /\ Len(solved) = 2
    /\ solved[2] # cnf_instance
    /\ raised = "none"

====
